---- MODULE Spec2Model ----
(***************************************************************************)
(* Attack detection and risk scoring of passwordC-Dtool.                   *)
(*                                                                         *)
(*   ml/risk_scorer.py  RiskScorer: the per-IP window cache (ip_cache),    *)
(*                      model loading, score_ip, should_block and the      *)
(*                      module-level score_login_attempt                   *)
(*   detection.py       run_detection_once: the brute-force and the        *)
(*                      credential-stuffing rule with their cooldown       *)
(*   database.py        login_logs and alerts, as far as the detector      *)
(*                      reads and writes them                              *)
(*                                                                         *)
(* Time is the value of datetime.utcnow() in whole seconds.  Every clock   *)
(* reading is drawn from a small set of instants that contains both sides  *)
(* of every boundary the code compares against.                            *)
(***************************************************************************)
EXTENDS Integers, Sequences, FiniteSets, TLC

VARIABLES
    now,          \* the value datetime.utcnow() returns
    ip_cache,     \* RiskScorer.ip_cache: ip -> window entry (a defaultdict)
    risk_scorer,  \* _risk_scorer: whether it is created, its model and metadata
    model_file,   \* what risk_model.pkl holds
    metadata_file, \* what risk_model_metadata.pkl holds
    login_logs,   \* table login_logs, oldest row first
    alerts,       \* table alerts, oldest row first
    last_alerts,  \* detection._last_alerts: (alert_type, ip) -> datetime
    detection_thread, \* app.py: the thread that runs detection_loop
    sweeps,       \* app.py: each thread started on detection_loop, where it
                  \* is in run_detection_once and what it holds
    detection_engine, \* detection_engine.py: last_bruteforce_alert and
                  \* last_stuffing_alert
    threads,      \* the threads inside update_cache or score_login_attempt:
                  \* position and locals
    scorers,      \* the RiskScorer instances in the order they were created,
                  \* and the one _risk_scorer is bound to (0 is None)
    ret           \* the most recent call: its name, arguments and result

vars == <<now, ip_cache, risk_scorer, model_file, metadata_file,
          login_logs, alerts, last_alerts, detection_thread, sweeps,
          detection_engine, threads, scorers, ret>>

model_vars == <<risk_scorer, model_file, metadata_file>>
scorer_vars == <<ip_cache, model_vars, scorers>>
detector_vars == <<login_logs, alerts, last_alerts, detection_thread, sweeps,
                   detection_engine>>

(***************************************************************************)
(* Values                                                                  *)
(***************************************************************************)
None == "None"

IPs == {"10.0.0.5", "10.0.0.9"}

\* database.py / app.py: the statuses a login is logged with, and "fail"
Statuses == {"success", "fail_no_user", "fail_wrong_password"}

\* str.startswith("fail") on the statuses above
startswith_fail(status) == status \in {"fail", "fail_no_user", "fail_wrong_password"}

\* timedelta(hours=1), in seconds
HORIZON == 3600

\* round(n / d) as Python rounds: to the nearest integer, a tie to the even one
round_div(n, d) ==
    LET q == n \div d
        r == n % d
    IN  IF 2 * r < d THEN q
        ELSE IF 2 * r > d THEN q + 1
        ELSE IF q % 2 = 0 THEN q ELSE q + 1

\* sum(xs)
RECURSIVE sum_seq(_)
sum_seq(xs) == IF xs = <<>> THEN 0 ELSE Head(xs) + sum_seq(Tail(xs))

\* a quotient of the code, kept exact: num / den
fraction(n, d) == [num |-> n, den |-> d]

\* round(x, ndigits) of a quotient, scale being 10 ** ndigits
rounded(x, scale) == fraction(round_div(scale * x.num, x.den), scale)

(***************************************************************************)
(* RiskScorer.ip_cache                                                     *)
(***************************************************************************)
\* the value the defaultdict creates for a missing key
new_entry ==
    [attempts    |-> <<>>,
     users       |-> {},
     fingerprints |-> [x \in {} |-> 0],
     user_agents |-> {},
     timestamps  |-> <<>>,
     failures    |-> 0,
     successes   |-> 0]

\* self.ip_cache[ip]: the entry, created when the key is missing
getitem(cache, ip) == IF ip \in DOMAIN cache THEN cache[ip] ELSE new_entry

\* defaultdict(int): d[k] += 1
incr(d, k) ==
    [x \in (DOMAIN d) \cup {k} |->
        IF x = k THEN (IF k \in DOMAIN d THEN d[k] ELSE 0) + 1 ELSE d[x]]

\* [x for x in s if keep(x)]
RECURSIVE filter_after(_, _)
filter_after(s, cutoff) ==
    IF s = <<>> THEN <<>>
    ELSE IF Head(s) > cutoff
         THEN <<Head(s)>> \o filter_after(Tail(s), cutoff)
         ELSE filter_after(Tail(s), cutoff)

RECURSIVE filter_attempts_after(_, _)
filter_attempts_after(s, cutoff) ==
    IF s = <<>> THEN <<>>
    ELSE IF Head(s)[3] > cutoff
         THEN <<Head(s)>> \o filter_attempts_after(Tail(s), cutoff)
         ELSE filter_attempts_after(Tail(s), cutoff)

\* extract_features: len(data['attempts'])
total_attempts(data) == Len(data.attempts)

\* extract_features: data['failures'] / total_attempts, as a fraction
failed_rate(data) == [num |-> data.failures, den |-> total_attempts(data)]

\* extract_features: data['successes'] / total_attempts, as a fraction
success_rate(data) == [num |-> data.successes, den |-> total_attempts(data)]

\* the two comprehensions that end update_cache
clean_timestamps(ts, cutoff) == filter_after(ts, cutoff)

\* mutation: the attempts list is not cleaned
clean_attempts_kept(at, cutoff) == at

clean_attempts(at, cutoff) == filter_attempts_after(at, cutoff)

\* status.startswith raises AttributeError: status is None
startswith_raises(status) == status = None

\* the entry of ip when update_cache raises at status.startswith: the
\* attempt is appended, nothing is counted and nothing is cleaned
appended_entry(data, username, status, fingerprint, user_agent, t1) ==
    [data EXCEPT
        !.attempts = Append(@, <<username, status, t1, fingerprint>>),
        !.users = @ \cup {username},
        !.fingerprints = incr(@, fingerprint),
        !.timestamps = Append(@, t1),
        !.user_agents = IF user_agent # None THEN @ \cup {user_agent} ELSE @]

\* the entry of ip after update_cache; t1 is the clock reading of the
\* timestamp, t2 the later reading the cutoff is computed from
updated_entry(data, username, status, fingerprint, user_agent, t1, t2) ==
    LET cutoff == t2 - HORIZON
    IN  IF startswith_raises(status)
        THEN appended_entry(data, username, status, fingerprint, user_agent, t1)
        ELSE
        [attempts    |-> clean_attempts(
                            Append(data.attempts, <<username, status, t1, fingerprint>>),
                            cutoff),
         users       |-> data.users \cup {username},
         fingerprints |-> incr(data.fingerprints, fingerprint),
         user_agents |-> IF user_agent # None
                         THEN data.user_agents \cup {user_agent}
                         ELSE data.user_agents,
         timestamps  |-> clean_timestamps(Append(data.timestamps, t1), cutoff),
         failures    |-> IF startswith_fail(status)
                         THEN data.failures + 1 ELSE data.failures,
         successes   |-> IF startswith_fail(status)
                         THEN data.successes ELSE data.successes + 1]

setitem(cache, ip, entry) ==
    [x \in (DOMAIN cache) \cup {ip} |-> IF x = ip THEN entry ELSE cache[x]]

\* sum(counter.values()) over the keys given
RECURSIVE sum_values(_, _)
sum_values(counter, keys) ==
    IF keys = {} THEN 0
    ELSE LET k == CHOOSE x \in keys : TRUE
         IN  counter[k] + sum_values(counter, keys \ {k})

\* the number of update_cache calls the cache has recorded: every call
\* counts its fingerprint once and no count is ever taken back
RECURSIVE recorded(_, _)
recorded(cache, ips) ==
    IF ips = {} THEN 0
    ELSE LET ip == CHOOSE x \in ips : TRUE
         IN  sum_values(cache[ip].fingerprints, DOMAIN cache[ip].fingerprints)
             + recorded(cache, ips \ {ip})

(***************************************************************************)
(* Bounds and inputs of the scorer                                         *)
(***************************************************************************)
\* update_cache calls explored
MaxUpdates == 3

\* clock readings of the scorer: both sides of the one-hour cutoff
ScorerInstants == {0, 1, HORIZON, HORIZON + 1}

\* (username, status, fingerprint, user_agent) of the attempts explored
Attempts ==
    { <<"u1", "fail_wrong_password", "fp1", None>>,
      <<"u2", "fail_no_user", "fp1", "Mozilla/5.0">>,
      <<"u1", "success", "fp2", "Mozilla/5.0">> }

(***************************************************************************)
(* Actions of the scorer                                                   *)
(***************************************************************************)
\* RiskScorer.update_cache(ip, username, status, fingerprint, user_agent)
update_cache(ip, username, status, fingerprint, user_agent) ==
    /\ recorded(ip_cache, DOMAIN ip_cache) < MaxUpdates
    /\ \E t2 \in ScorerInstants :
          /\ t2 \in {now, now + 1}
          /\ ip_cache' = setitem(ip_cache, ip,
                updated_entry(getitem(ip_cache, ip), username, status,
                              fingerprint, user_agent, now, t2))
          /\ now' = t2
    /\ ret' = [op |-> "update_cache", ip |-> ip]
    /\ UNCHANGED <<model_vars, detector_vars, threads, scorers>>

\* time passes between two calls of the scorer
scorer_clock ==
    /\ \E t \in ScorerInstants : t > now /\ now' = t
    /\ ret' = [op |-> "clock", ip |-> None]
    /\ UNCHANGED <<scorer_vars, detector_vars, threads>>

\* threads that call update_cache at the same time
MaxThreads == 2

Threads == 1..MaxThreads

\* the ip all of them report
ConcurrentIP == "10.0.0.5"

\* a thread that has not called yet
idle == [pc |-> "idle", a |-> <<>>, data |-> None, tmp |-> <<>>]

\* mutation: detection_loop is started on a second thread
detection_threads_two == {"t", "t2"}

\* app.py: the threads started with target=detection_loop
detection_threads == {"t"}

\* a thread of detection_loop in time.sleep(5)
sleeping == [pc |-> "sleep", now |-> 0, logs |-> <<>>]

\* RiskScorer.__init__, the detector module just imported, empty tables
Init ==
    /\ now = 0
    /\ ip_cache = [x \in {} |-> new_entry]
    /\ risk_scorer = [created |-> FALSE, model |-> 0, metadata |-> 0,
                      loaded |-> FALSE]
    /\ model_file = 0
    /\ metadata_file = 0
    /\ login_logs = <<>>
    /\ alerts = <<>>
    /\ last_alerts = [k \in {} |-> 0]
    /\ detection_thread = "running"
    /\ sweeps = [t \in detection_threads |-> sleeping]
    /\ detection_engine = [last_bruteforce_alert |-> [k \in {} |-> 0],
                           last_stuffing_alert |-> [k \in {} |-> 0]]
    /\ threads = [t \in Threads |-> idle]
    /\ scorers = [_risk_scorer |-> 0, objects |-> <<>>]
    /\ ret = [op |-> "init", ip |-> None]

NextCache ==
    \/ \E ip \in IPs, a \in Attempts : update_cache(ip, a[1], a[2], a[3], a[4])
    \/ scorer_clock

SpecCache == Init /\ [][NextCache]_vars

(***************************************************************************)
(* update_cache called by several threads.  The method takes no lock, so   *)
(* the interpreter may switch threads between any two of its steps.  One   *)
(* method call on a container (append, add) is one step; a statement that  *)
(* reads a field and assigns it again (+= 1, the two comprehensions) is a  *)
(* load and a later store; the defaultdict calls its factory and then      *)
(* stores the new entry.  A thread whose entry was replaced in ip_cache     *)
(* keeps updating a dict the cache no longer holds: data = "orphan".       *)
(***************************************************************************)
\* the dict the local variable data of thread t refers to
data_of(t) ==
    IF threads[t].data = "cached" THEN ip_cache[ConcurrentIP] ELSE new_entry

\* an assignment through data: it reaches ip_cache when data is the entry
\* the cache holds
stored(t, entry) ==
    IF threads[t].data = "cached"
    THEN setitem(ip_cache, ConcurrentIP, entry)
    ELSE ip_cache

\* thread t moves to pc with tmp as the value it has loaded
goto(t, pc, tmp) == [threads EXCEPT ![t].pc = pc, ![t].tmp = tmp]

\* a thread enters update_cache(ip, username, status, fingerprint, user_agent)
call_update_cache(t, a) ==
    /\ threads[t].pc = "idle"
    /\ threads' = [threads EXCEPT ![t].pc = "getitem", ![t].a = a]
    /\ UNCHANGED <<now, scorer_vars, detector_vars, ret>>

\* data = self.ip_cache[ip]: the key is present, or the factory is called
ip_cache_getitem(t) ==
    /\ threads[t].pc = "getitem"
    /\ threads' = IF ConcurrentIP \in DOMAIN ip_cache
                  THEN [threads EXCEPT ![t].pc = "append", ![t].data = "cached"]
                  ELSE [threads EXCEPT ![t].pc = "missing"]
    /\ UNCHANGED <<now, scorer_vars, detector_vars, ret>>

\* defaultdict.__missing__: self[key] = value, whatever the key holds by now
ip_cache_missing(t) ==
    /\ threads[t].pc = "missing"
    /\ ip_cache' = setitem(ip_cache, ConcurrentIP, new_entry)
    /\ threads' = [u \in Threads |->
                      IF u = t
                      THEN [threads[u] EXCEPT !.pc = "append", !.data = "cached"]
                      ELSE IF threads[u].data = "cached"
                           THEN [threads[u] EXCEPT !.data = "orphan"]
                           ELSE threads[u]]
    /\ UNCHANGED <<now, model_vars, detector_vars, ret, scorers>>

\* data['attempts'].append(...); data['users'].add(username)
append_attempt(t) ==
    /\ threads[t].pc = "append"
    /\ LET a == threads[t].a
           data == data_of(t)
       IN  ip_cache' = stored(t, [data EXCEPT
                !.attempts = Append(@, <<a[1], a[2], now, a[3]>>),
                !.users = @ \cup {a[1]}])
    /\ threads' = goto(t, "fingerprints_load", <<>>)
    /\ UNCHANGED <<now, model_vars, detector_vars, ret, scorers>>

\* data['fingerprints'][fingerprint] += 1: the load
fingerprints_load(t) ==
    /\ threads[t].pc = "fingerprints_load"
    /\ LET fingerprints == data_of(t).fingerprints
           fingerprint == threads[t].a[3]
       IN  threads' = goto(t, "fingerprints_store",
                IF fingerprint \in DOMAIN fingerprints
                THEN fingerprints[fingerprint] ELSE 0)
    /\ UNCHANGED <<now, scorer_vars, detector_vars, ret>>

\* data['fingerprints'][fingerprint] += 1: the store
fingerprints_store(t) ==
    /\ threads[t].pc = "fingerprints_store"
    /\ LET data == data_of(t)
           fingerprint == threads[t].a[3]
       IN  ip_cache' = stored(t, [data EXCEPT !.fingerprints =
                [x \in (DOMAIN @) \cup {fingerprint} |->
                    IF x = fingerprint THEN threads[t].tmp + 1 ELSE @[x]]])
    /\ threads' = goto(t, "timestamps", <<>>)
    /\ UNCHANGED <<now, model_vars, detector_vars, ret, scorers>>

\* data['timestamps'].append(timestamp); data['user_agents'].add(user_agent)
append_timestamp(t) ==
    /\ threads[t].pc = "timestamps"
    /\ LET data == data_of(t)
           user_agent == threads[t].a[4]
       IN  ip_cache' = stored(t, [data EXCEPT
                !.timestamps = Append(@, now),
                !.user_agents = IF user_agent # None THEN @ \cup {user_agent} ELSE @])
    /\ threads' = goto(t, "count_load", <<>>)
    /\ UNCHANGED <<now, model_vars, detector_vars, ret, scorers>>

\* data['failures'] += 1 or data['successes'] += 1: the load
count_load(t) ==
    /\ threads[t].pc = "count_load"
    /\ threads' = goto(t, "count_store",
            IF startswith_fail(threads[t].a[2])
            THEN data_of(t).failures ELSE data_of(t).successes)
    /\ UNCHANGED <<now, scorer_vars, detector_vars, ret>>

\* data['failures'] += 1 or data['successes'] += 1: the store
count_store(t) ==
    /\ threads[t].pc = "count_store"
    /\ LET data == data_of(t)
       IN  ip_cache' = stored(t,
                IF startswith_fail(threads[t].a[2])
                THEN [data EXCEPT !.failures = threads[t].tmp + 1]
                ELSE [data EXCEPT !.successes = threads[t].tmp + 1])
    /\ threads' = goto(t, "clean_timestamps_load", <<>>)
    /\ UNCHANGED <<now, model_vars, detector_vars, ret, scorers>>

\* [t for t in data['timestamps'] if t > cutoff]
clean_timestamps_load(t) ==
    /\ threads[t].pc = "clean_timestamps_load"
    /\ threads' = goto(t, "clean_timestamps_store",
            clean_timestamps(data_of(t).timestamps, now - HORIZON))
    /\ UNCHANGED <<now, scorer_vars, detector_vars, ret>>

\* data['timestamps'] = the list just built
clean_timestamps_store(t) ==
    /\ threads[t].pc = "clean_timestamps_store"
    /\ ip_cache' = stored(t, [data_of(t) EXCEPT !.timestamps = threads[t].tmp])
    /\ threads' = goto(t, "clean_attempts_load", <<>>)
    /\ UNCHANGED <<now, model_vars, detector_vars, ret, scorers>>

\* [a for a in data['attempts'] if a[2] > cutoff]
clean_attempts_load(t) ==
    /\ threads[t].pc = "clean_attempts_load"
    /\ threads' = goto(t, "clean_attempts_store",
            clean_attempts(data_of(t).attempts, now - HORIZON))
    /\ UNCHANGED <<now, scorer_vars, detector_vars, ret>>

\* data['attempts'] = the list just built; update_cache returns
clean_attempts_store(t) ==
    /\ threads[t].pc = "clean_attempts_store"
    /\ ip_cache' = stored(t, [data_of(t) EXCEPT !.attempts = threads[t].tmp])
    /\ threads' = goto(t, "returned", <<>>)
    /\ ret' = [op |-> "update_cache", ip |-> ConcurrentIP]
    /\ UNCHANGED <<now, model_vars, detector_vars, scorers>>

NextConcurrentCache ==
    \E t \in Threads :
        \/ \E a \in Attempts : call_update_cache(t, a)
        \/ ip_cache_getitem(t)
        \/ ip_cache_missing(t)
        \/ append_attempt(t)
        \/ fingerprints_load(t)
        \/ fingerprints_store(t)
        \/ append_timestamp(t)
        \/ count_load(t)
        \/ count_store(t)
        \/ clean_timestamps_load(t)
        \/ clean_timestamps_store(t)
        \/ clean_attempts_load(t)
        \/ clean_attempts_store(t)

SpecConcurrentCache == Init /\ [][NextConcurrentCache]_vars

(***************************************************************************)
(* ml/risk_scorer.py: the model, score_ip, should_block,                   *)
(* score_login_attempt                                                     *)
(*                                                                         *)
(* A file holds 0 when it is missing and otherwise the number of the       *)
(* training run that wrote it; model and metadata of the scorer are 0 for  *)
(* None.  The classifier is opaque: what predict and predict_proba return  *)
(* is an input of the call.                                                *)
(***************************************************************************)
Classes == {"normal", "suspicious", "credential_stuffing", "brute_force"}

\* mutation: a suspicious source is rated like credential stuffing
risk_map_suspicious_high(prediction) ==
    CASE prediction = "normal" -> 0
      [] prediction = "suspicious" -> 85
      [] prediction = "credential_stuffing" -> 85
      [] prediction = "brute_force" -> 95
      [] OTHER -> 50

\* risk_map.get(prediction, 50)
risk_map(prediction) ==
    CASE prediction = "normal" -> 0
      [] prediction = "suspicious" -> 60
      [] prediction = "credential_stuffing" -> 85
      [] prediction = "brute_force" -> 95
      [] OTHER -> 50

\* int(base_risk * max_prob), max_prob given in hundredths
risk_score_of(base_risk, max_prob) == (base_risk * max_prob) \div 100

\* the scorer after RiskScorer() on the two files: load_model assigns the
\* model before it reads the metadata; loaded is what load_model returned
load_model(mfile, mdfile) ==
    IF mfile = 0
    THEN [created |-> TRUE, model |-> 0, metadata |-> 0, loaded |-> FALSE]
    ELSE [created |-> TRUE, model |-> mfile, metadata |-> mdfile,
          loaded |-> mdfile # 0]

\* get_risk_scorer(): the instance, created on the first call
get_risk_scorer_value ==
    IF risk_scorer.created THEN risk_scorer ELSE load_model(model_file, metadata_file)

\* mutation: reading empties the entry
extract_features_cache_reset(cache, ip) == setitem(cache, ip, new_entry)

\* self.ip_cache after extract_features(ip): reading creates the key
extract_features_cache(cache, ip) == setitem(cache, ip, getitem(cache, ip))

\* the dict score_ip returns for scorer; pred is what the classifier does:
\* it raises, or returns prediction and max(probabilities) in hundredths
score_ip_value(scorer, pred) ==
    IF scorer.model = 0
    THEN [risk_score |-> 50, classification |-> "unknown", confidence |-> 0,
          error |-> "Model not loaded"]
    ELSE IF pred.raises \/ scorer.metadata = 0
    THEN [risk_score |-> 50, classification |-> "error", confidence |-> 0,
          error |-> "str(e)"]
    ELSE [risk_score |-> risk_score_of(risk_map(pred.prediction), pred.max_prob),
          classification |-> pred.prediction, confidence |-> pred.max_prob,
          error |-> None]

\* score_data['risk_score'] >= threshold
should_block_value(score_data, threshold) == score_data.risk_score >= threshold

(***************************************************************************)
(* Bounds and inputs of score_login_attempt                                *)
(***************************************************************************)
\* attempts scored
MaxScored == 1

\* training runs
MaxTrainings == 1

\* len(all_features) below which train_risk_model gives up
MIN_SAMPLES == 50

\* len(real_features) and len(synthetic_features) of a training run
RealSamples == {0, 1}
SyntheticSamples == {0, MIN_SAMPLES - 2, MIN_SAMPLES - 1, MIN_SAMPLES, 250}

\* max(probabilities), in hundredths: 94 and 95 are the two sides of the
\* default threshold for credential stuffing
Probabilities == {66, 94, 95, 100}

\* should_block(self, ip, threshold=80)
DEFAULT_THRESHOLD == 80

Thresholds == {1, 50, 51, DEFAULT_THRESHOLD, 100}

\* the address the scorer's callers ask about
ScoredIPs == {"10.0.0.5"}

\* what the classifier does in one call
Predictions ==
    {[raises |-> TRUE, prediction |-> None, max_prob |-> 0]}
    \cup {[raises |-> FALSE, prediction |-> c, max_prob |-> p] :
            c \in Classes, p \in Probabilities}

\* what the classifier of scorer can do in one call: without a model it is
\* not called
not_called == [raises |-> FALSE, prediction |-> None, max_prob |-> 0]
outcomes(scorer) == IF scorer.model = 0 THEN {not_called} ELSE Predictions

\* (username, status, fingerprint, user_agent) of the attempts scored
ScoredAttempts ==
    { <<"u1", "fail_wrong_password", "fp1", None>>,
      <<"u2", "success", "fp2", "Mozilla/5.0">>,
      <<"u1", None, "fp1", None>> }

(***************************************************************************)
(* Actions of the scorer's callers                                         *)
(***************************************************************************)
\* mutation: the training set is never found too small
insufficient_never(real, synthetic) == FALSE

\* train_model.train_risk_model: len(all_features) < 50
insufficient(real, synthetic) == real + synthetic < MIN_SAMPLES

\* train_model.train_risk_model up to its first write: with too few samples
\* it prints and returns False, otherwise it trains and reaches step 6,
\* joblib.dump(model, model_path)
train_risk_model(real, synthetic) ==
    /\ model_file = metadata_file
    /\ insufficient(real, synthetic) \/ model_file < MaxTrainings
    /\ IF insufficient(real, synthetic)
       THEN /\ ret' = [op |-> "train_risk_model", ip |-> None,
                       samples |-> real + synthetic, value |-> FALSE,
                       printed |-> "[!] Not enough training data!",
                       files_before |-> <<model_file, metadata_file>>]
            /\ UNCHANGED model_file
       ELSE /\ model_file' = model_file + 1
            /\ ret' = [op |-> "dump_model", ip |-> None,
                       samples |-> real + synthetic]
    /\ UNCHANGED <<now, ip_cache, risk_scorer, metadata_file, detector_vars,
                   threads, scorers>>

\* train_model.train_risk_model, step 6: joblib.dump(metadata, metadata_path)
dump_metadata ==
    /\ metadata_file < model_file
    /\ metadata_file' = model_file
    /\ ret' = [op |-> "dump_metadata", ip |-> None]
    /\ UNCHANGED <<now, ip_cache, risk_scorer, model_file, detector_vars,
                   threads, scorers>>

\* get_risk_scorer() while _risk_scorer is None
get_risk_scorer ==
    /\ ~risk_scorer.created
    /\ risk_scorer' = get_risk_scorer_value
    /\ ret' = [op |-> "get_risk_scorer", ip |-> None]
    /\ UNCHANGED <<now, ip_cache, model_file, metadata_file, detector_vars,
                   threads, scorers>>

\* RiskScorer.score_ip(ip)
score_ip(ip, pred) ==
    /\ risk_scorer.created
    /\ ip_cache' = IF risk_scorer.model = 0 THEN ip_cache
                   ELSE extract_features_cache(ip_cache, ip)
    /\ ret' = [op |-> "score_ip", ip |-> ip, raised |-> FALSE, pred |-> pred,
               value |-> score_ip_value(risk_scorer, pred)]
    /\ UNCHANGED <<now, model_vars, detector_vars, threads, scorers>>

\* RiskScorer.should_block(ip, threshold)
should_block(ip, threshold, pred) ==
    /\ risk_scorer.created
    /\ ip_cache' = IF risk_scorer.model = 0 THEN ip_cache
                   ELSE extract_features_cache(ip_cache, ip)
    /\ ret' = [op |-> "should_block", ip |-> ip, raised |-> FALSE, pred |-> pred,
               threshold |-> threshold,
               score |-> score_ip_value(risk_scorer, pred),
               value |-> should_block_value(score_ip_value(risk_scorer, pred),
                                            threshold)]
    /\ UNCHANGED <<now, model_vars, detector_vars, threads, scorers>>

\* mutation: the ip is scored before the event is recorded
scored_entry_before(data, username, status, fingerprint, user_agent, t1, t2) ==
    data

\* the entry scorer.score_ip(ip) extracts the features from in
\* score_login_attempt: scorer.update_cache(...) has run
scored_entry(data, username, status, fingerprint, user_agent, t1, t2) ==
    updated_entry(data, username, status, fingerprint, user_agent, t1, t2)

\* score_login_attempt(ip, username, status, fingerprint, user_agent)
score_login_attempt(ip, username, status, fingerprint, user_agent, pred) ==
    LET scorer == get_risk_scorer_value
    IN  /\ recorded(ip_cache, DOMAIN ip_cache) < MaxScored
        /\ risk_scorer' = scorer
        /\ IF scorer.model = 0
           THEN /\ ret' = [op |-> "score_login_attempt", ip |-> ip,
                           raised |-> FALSE, pred |-> pred,
                           event |-> <<username, status, now, fingerprint>>,
                           total_attempts |-> None,
                           value |-> [risk_score |-> 0,
                                      classification |-> "unknown",
                                      confidence |-> 0, error |-> None]]
                /\ UNCHANGED <<now, ip_cache>>
           ELSE \E t2 \in ScorerInstants :
                  /\ t2 \in {now, now + 1}
                  /\ now' = t2
                  /\ ip_cache' = setitem(ip_cache, ip,
                        updated_entry(getitem(ip_cache, ip), username, status,
                                      fingerprint, user_agent, now, t2))
                  /\ ret' = [op |-> "score_login_attempt", ip |-> ip,
                             raised |-> startswith_raises(status), pred |-> pred,
                             event |-> <<username, status, now, fingerprint>>,
                             total_attempts |->
                                 IF startswith_raises(status) THEN None
                                 ELSE total_attempts(scored_entry(
                                          getitem(ip_cache, ip), username, status,
                                          fingerprint, user_agent, now, t2)),
                             value |-> IF startswith_raises(status) THEN None
                                       ELSE score_ip_value(scorer, pred)]
        /\ UNCHANGED <<model_file, metadata_file, detector_vars,
                       threads, scorers>>

NextScorer ==
    \/ \E real \in RealSamples, synthetic \in SyntheticSamples :
            train_risk_model(real, synthetic)
    \/ dump_metadata
    \/ get_risk_scorer
    \/ \E ip \in ScoredIPs, pred \in outcomes(risk_scorer) : score_ip(ip, pred)
    \/ \E ip \in ScoredIPs, th \in Thresholds, pred \in outcomes(risk_scorer) :
            should_block(ip, th, pred)
    \/ \E ip \in ScoredIPs, a \in ScoredAttempts :
          \E pred \in IF startswith_raises(a[2]) THEN {not_called}
                      ELSE outcomes(get_risk_scorer_value) :
            score_login_attempt(ip, a[1], a[2], a[3], a[4], pred)
    \/ scorer_clock

SpecScorer == Init /\ [][NextScorer]_vars

(***************************************************************************)
(* score_login_attempt called by several threads.  get_risk_scorer tests   *)
(* _risk_scorer, constructs a RiskScorer and binds it without a lock, so   *)
(* the interpreter may switch threads between the test, the constructor    *)
(* (which reads two files), the assignment and the return.  update_cache   *)
(* and score_ip are one step each here.  A thread's tmp is the instance    *)
(* its local variable refers to, as an index into scorers.objects.         *)
(***************************************************************************)
\* events recorded through score_login_attempt, over all instances
MaxSharedEvents == 2

\* (username, status, fingerprint, user_agent) of the concurrent calls
SharedAttempts == {a \in ScoredAttempts : ~startswith_raises(a[2])}

\* events the instances hold, the first n of them
RECURSIVE events_recorded(_, _)
events_recorded(objects, n) ==
    IF n = 0 THEN 0
    ELSE recorded(objects[n].ip_cache, DOMAIN objects[n].ip_cache)
         + events_recorded(objects, n - 1)

\* RiskScorer(): an empty ip_cache, and load_model() from the files as
\* they are now
RiskScorer == [scorer |-> load_model(model_file, metadata_file),
               ip_cache |-> [x \in {} |-> new_entry]]

\* a thread enters score_login_attempt(ip, username, status, ...)
score_login_attempt_call(t, a) ==
    /\ threads[t].pc = "idle"
    /\ events_recorded(scorers.objects, Len(scorers.objects)) < MaxSharedEvents
    /\ threads' = [threads EXCEPT ![t].pc = "is_none", ![t].a = a]
    /\ UNCHANGED <<now, ip_cache, model_vars, scorers, detector_vars, ret>>

\* get_risk_scorer: if _risk_scorer is None
get_risk_scorer_is_none(t) ==
    /\ threads[t].pc = "is_none"
    /\ threads' = goto(t, IF scorers._risk_scorer = 0 THEN "RiskScorer"
                          ELSE "return", <<>>)
    /\ UNCHANGED <<now, ip_cache, model_vars, scorers, detector_vars, ret>>

\* get_risk_scorer: RiskScorer(), the right-hand side of the assignment
get_risk_scorer_construct(t) ==
    /\ threads[t].pc = "RiskScorer"
    /\ scorers' = [scorers EXCEPT !.objects = Append(@, RiskScorer)]
    /\ threads' = goto(t, "assign", Len(scorers.objects) + 1)
    /\ UNCHANGED <<now, ip_cache, model_vars, detector_vars, ret>>

\* get_risk_scorer: _risk_scorer = <the new instance>
get_risk_scorer_assign(t) ==
    /\ threads[t].pc = "assign"
    /\ scorers' = [scorers EXCEPT !._risk_scorer = threads[t].tmp]
    /\ threads' = goto(t, "return", <<>>)
    /\ UNCHANGED <<now, ip_cache, model_vars, detector_vars, ret>>

\* get_risk_scorer: return _risk_scorer, read again from the global
get_risk_scorer_return(t) ==
    /\ threads[t].pc = "return"
    /\ threads' = goto(t, "update_cache", scorers._risk_scorer)
    /\ UNCHANGED <<now, ip_cache, model_vars, scorers, detector_vars, ret>>

\* score_login_attempt: without a model the default dict is returned,
\* otherwise scorer.update_cache(...) records the event in the instance
\* the thread holds
score_login_attempt_update_cache(t) ==
    LET o == threads[t].tmp
        a == threads[t].a
        object == scorers.objects[o]
    IN  /\ threads[t].pc = "update_cache"
        /\ IF object.scorer.model = 0
           THEN /\ threads' = [threads EXCEPT ![t] = idle]
                /\ ret' = [op |-> "score_login_attempt", ip |-> ConcurrentIP,
                           thread |-> t, scorer |-> o,
                           value |-> [risk_score |-> 0,
                                      classification |-> "unknown",
                                      confidence |-> 0, error |-> None]]
                /\ UNCHANGED scorers
           ELSE /\ threads' = goto(t, "score_ip", o)
                /\ scorers' = [scorers EXCEPT !.objects[o].ip_cache =
                        setitem(@, ConcurrentIP,
                                updated_entry(getitem(@, ConcurrentIP), a[1], a[2],
                                              a[3], a[4], now, now))]
                /\ UNCHANGED ret
        /\ UNCHANGED <<now, ip_cache, model_vars, detector_vars>>

\* score_login_attempt: return scorer.score_ip(ip)
score_login_attempt_score_ip(t, pred) ==
    LET o == threads[t].tmp
    IN  /\ threads[t].pc = "score_ip"
        /\ threads' = [threads EXCEPT ![t] = idle]
        /\ ret' = [op |-> "score_login_attempt", ip |-> ConcurrentIP,
                   thread |-> t, scorer |-> o,
                   value |-> score_ip_value(scorers.objects[o].scorer, pred)]
        /\ UNCHANGED <<now, ip_cache, model_vars, scorers, detector_vars>>

NextSharedScorer ==
    \/ \E real \in RealSamples, synthetic \in SyntheticSamples :
            train_risk_model(real, synthetic)
    \/ dump_metadata
    \/ \E t \in Threads, a \in SharedAttempts : score_login_attempt_call(t, a)
    \/ \E t \in Threads : get_risk_scorer_is_none(t)
    \/ \E t \in Threads : get_risk_scorer_construct(t)
    \/ \E t \in Threads : get_risk_scorer_assign(t)
    \/ \E t \in Threads : get_risk_scorer_return(t)
    \/ \E t \in Threads : score_login_attempt_update_cache(t)
    \/ \E t \in Threads, pred \in Predictions : score_login_attempt_score_ip(t, pred)

SpecSharedScorer == Init /\ [][NextSharedScorer]_vars

(***************************************************************************)
(* database.py: login_logs and alerts                                      *)
(*                                                                         *)
(* login_logs is kept as the sequence of the bursts that filled it: an     *)
(* element stands for the rows one loop of insert_login_log calls wrote,   *)
(* n rows for each of its usernames, so that more rows than the detector   *)
(* fetches fit in a state.                                                 *)
(***************************************************************************)
\* datetime.isoformat(): the text stored in a timestamp column
isoformat(t) == [text |-> "iso", t |-> t]

\* a timestamp column no datetime.fromisoformat() accepts
unparseable == [text |-> "unparseable", t |-> 0]

\* get_last_alert_time: row[0] if row else None
no_timestamp == [text |-> "None", t |-> 0]

\* datetime.fromisoformat(ts) returns, it does not raise
fromisoformat_ok(ts) == ts.text = "iso"
fromisoformat(ts) == ts.t

\* for username in usernames: n times insert_login_log(username, ip,
\* status, fingerprint, user_agent), at time t
inserted_logs(logs, usernames, ip, status, fingerprint, user_agent, t, n) ==
    Append(logs, [usernames |-> usernames, ip |-> ip, status |-> status,
                  fingerprint |-> fingerprint, timestamp |-> isoformat(t),
                  user_agent |-> user_agent, n |-> n])

\* the rows of a burst, newest first: n equal rows for each username
rows_of(burst) ==
    [i \in 1..Len(burst.usernames) |->
        [row |-> [username |-> burst.usernames[Len(burst.usernames) + 1 - i],
                  ip |-> burst.ip, status |-> burst.status,
                  timestamp |-> burst.timestamp, user_agent |-> burst.user_agent],
         n |-> burst.n]]

\* the rows of the table, newest first
RECURSIVE rows_desc(_)
rows_desc(logs) ==
    IF logs = <<>> THEN <<>>
    ELSE rows_of(logs[Len(logs)]) \o rows_desc(SubSeq(logs, 1, Len(logs) - 1))

\* LIMIT limit
RECURSIVE limited(_, _)
limited(rows, limit) ==
    IF rows = <<>> \/ limit <= 0 THEN <<>>
    ELSE IF Head(rows).n >= limit
         THEN <<[row |-> Head(rows).row, n |-> limit]>>
         ELSE <<Head(rows)>> \o limited(Tail(rows), limit - Head(rows).n)

\* SELECT username, ip, status, timestamp, user_agent FROM login_logs
\* ORDER BY id DESC LIMIT limit
fetch_recent_logs(logs, limit) ==
    CHOOSE r \in {limited(rows, limit) : rows \in {rows_desc(logs)}} : TRUE

\* insert_alert(alert_type, details) at time t
insert_alert(table, alert_type, details, t) ==
    Append(table, [alert_type |-> alert_type, details |-> details,
                   timestamp |-> isoformat(t)])

\* SELECT timestamp FROM alerts WHERE alert_type=? AND details=?
\* ORDER BY id DESC LIMIT 1
get_last_alert_time(table, alert_type, details) ==
    LET hits == {i \in 1..Len(table) :
                    table[i].alert_type = alert_type /\ table[i].details = details}
    IN  IF hits = {} THEN no_timestamp
        ELSE table[CHOOSE i \in hits : \A j \in hits : j <= i].timestamp

(***************************************************************************)
(* detection.py                                                            *)
(***************************************************************************)
BRUTE_WINDOW == 120
BRUTE_THRESHOLD == 5
STUFF_WINDOW == 60
STUFF_THRESHOLD == 4
COOLDOWN == 300

\* fetch_recent_logs(1000)
FETCH_LIMIT == 1000

\* the two f-strings of run_detection_once
details_of(alert_type, ip) ==
    IF alert_type = "BRUTE_FORCE"
    THEN <<"Brute force attack detected from IP", ip>>
    ELSE <<"Credential stuffing attack detected from IP", ip>>

\* the store as one sweep finds it: ops is the number of its calls of
\* database.py that still succeed, reachable when none of them fails
reachable == -1
store_fails(ops) == ops = 0
store_used(ops) == IF ops > 0 THEN ops - 1 ELSE ops

\* the row makes the loop raise: status.startswith on None, reached when
\* the timestamp parses and is inside the window
row_raises(r, t0, window) ==
    /\ fromisoformat_ok(r.row.timestamp)
    /\ t0 - fromisoformat(r.row.timestamp) <= window
    /\ startswith_raises(r.row.status)

\* the condition under which a fetched row is counted by a rule
counted(r, t0, window) ==
    /\ fromisoformat_ok(r.row.timestamp)
    /\ t0 - fromisoformat(r.row.timestamp) <= window
    /\ startswith_fail(r.row.status)

\* ip_counts: failed attempts per IP in the window
RECURSIVE sum_counted(_, _, _)
sum_counted(rows, ip, t0) ==
    IF rows = <<>> THEN 0
    ELSE (IF Head(rows).row.ip = ip /\ counted(Head(rows), t0, BRUTE_WINDOW)
          THEN Head(rows).n ELSE 0) + sum_counted(Tail(rows), ip, t0)

ip_counts(rows, ip, t0) == sum_counted(rows, ip, t0)

\* ip_users: the usernames of the failed attempts per IP in the window
ip_users(rows, ip, t0) ==
    {rows[i].row.username : i \in {j \in 1..Len(rows) :
        rows[j].row.ip = ip /\ counted(rows[j], t0, STUFF_WINDOW)}}

\* the keys of a dict filled while iterating rows, in insertion order
RECURSIVE dict_keys(_, _, _, _)
dict_keys(rows, t0, window, seen) ==
    IF rows = <<>> THEN <<>>
    ELSE LET ip == Head(rows).row.ip
         IN  IF counted(Head(rows), t0, window) /\ ip \notin seen
             THEN <<ip>> \o dict_keys(Tail(rows), t0, window, seen \cup {ip})
             ELSE dict_keys(Tail(rows), t0, window, seen)

\* mutation: the persisted alert is not consulted
db_ok_ignored(db_last_ts, t0) == TRUE

\* db_ok: the persisted alert does not forbid the emission
db_ok(db_last_ts, t0) ==
    IF db_last_ts = no_timestamp THEN TRUE
    ELSE IF fromisoformat_ok(db_last_ts)
         THEN ~(t0 - fromisoformat(db_last_ts) <= COOLDOWN)
         ELSE TRUE

\* not last or (now - last).total_seconds() > COOLDOWN
memory_ok(last, key, t0) ==
    key \notin DOMAIN last \/ t0 - last[key] > COOLDOWN

\* mutation: the alert is inserted whatever the cooldowns say
candidate_unconditional(d, alert_type, ip, t0, t1) ==
    [d EXCEPT
        !.alerts = insert_alert(d.alerts, alert_type, details_of(alert_type, ip), t1),
        !.last_alerts = [k \in (DOMAIN d.last_alerts) \cup {<<alert_type, ip>>} |->
                           IF k = <<alert_type, ip>> THEN t0 ELSE d.last_alerts[k]]]

\* _last_alerts after _last_alerts[alert_key] = now
started(last, key, t0) ==
    [k \in (DOMAIN last) \cup {key} |-> IF k = key THEN t0 ELSE last[k]]

\* mutation: the cooldown is started before insert_alert is called
insert_alert_raised_started(d, key, t0) ==
    [d EXCEPT !.raised = TRUE, !.last_alerts = started(@, key, t0)]

\* the sweep when insert_alert raises: the assignment after it is not reached
insert_alert_raised(d, key, t0) == [d EXCEPT !.raised = TRUE]

\* the body of "if count >= THRESHOLD:" for one ip; d is the sweep so far:
\* the alerts table, _last_alerts, the store calls that still succeed and
\* whether the sweep has raised; t0 is the sweep's now, t1 the clock
\* reading of insert_alert
candidate_body(d, alert_type, ip, t0, t1) ==
    LET key     == <<alert_type, ip>>
        details == details_of(alert_type, ip)
        db_last_ts == get_last_alert_time(d.alerts, alert_type, details)
        d1 == [d EXCEPT !.ops = store_used(@)]
    IN  IF d.raised THEN d
        ELSE IF store_fails(d.ops) THEN [d EXCEPT !.raised = TRUE]
        ELSE IF memory_ok(d.last_alerts, key, t0) /\ db_ok(db_last_ts, t0)
        THEN IF store_fails(d1.ops) THEN insert_alert_raised(d1, key, t0)
             ELSE [d1 EXCEPT
                     !.ops = store_used(@),
                     !.alerts = insert_alert(d.alerts, alert_type, details, t1),
                     !.last_alerts = started(d.last_alerts, key, t0)]
        ELSE d1

\* the body applied to the value of d, which is computed once
candidate(d, alert_type, ip, t0, t1) ==
    CHOOSE r \in {candidate_body(s, alert_type, ip, t0, t1) : s \in {d}} : TRUE

\* for ip, count in ip_counts.items(): ...
RECURSIVE brute_force_loop(_, _, _, _, _)
brute_force_loop(keys, rows, d, t0, t1) ==
    IF keys = <<>> THEN d
    ELSE brute_force_loop(Tail(keys), rows,
            IF ip_counts(rows, Head(keys), t0) >= BRUTE_THRESHOLD
            THEN candidate(d, "BRUTE_FORCE", Head(keys), t0, t1)
            ELSE d,
            t0, t1)

\* for ip, users in ip_users.items(): ...
RECURSIVE stuffing_loop(_, _, _, _, _)
stuffing_loop(keys, rows, d, t0, t1) ==
    IF keys = <<>> THEN d
    ELSE stuffing_loop(Tail(keys), rows,
            IF Cardinality(ip_users(rows, Head(keys), t0)) >= STUFF_THRESHOLD
            THEN candidate(d, "CREDENTIAL_STUFFING", Head(keys), t0, t1)
            ELSE d,
            t0, t1)

\* the first loop over the fetched rows raises; a row that would make the
\* second loop raise makes the first raise, its window being the wider
rows_raise(rows, t0) ==
    \E i \in 1..Len(rows) : row_raises(rows[i], t0, BRUTE_WINDOW)

\* run_detection_once after logs = fetch_recent_logs(1000): the two loops
\* that count and the two that alert; keys1 and keys2 are the keys of
\* ip_counts and of ip_users
detection_of(rows, keys1, keys2, d, t0, t1) ==
    IF rows_raise(rows, t0)
    THEN [d EXCEPT !.raised = TRUE]
    ELSE stuffing_loop(keys2, rows,
            brute_force_loop(keys1, rows, [d EXCEPT !.ops = store_used(@)], t0, t1),
            t0, t1)

\* run_detection_once on the two tables and _last_alerts; the fetched rows
\* and the keys of the two dicts are computed once
detection(logs, d, t0, t1) ==
    IF store_fails(d.ops)
    THEN [d EXCEPT !.raised = TRUE]
    ELSE CHOOSE r \in UNION
            {{detection_of(rows, keys1, keys2, d, t0, t1) :
                keys1 \in {dict_keys(rows, t0, BRUTE_WINDOW, {})},
                keys2 \in {dict_keys(rows, t0, STUFF_WINDOW, {})}} :
             rows \in {fetch_recent_logs(logs, FETCH_LIMIT)}} : TRUE

\* the sweep about to start: every call of the store succeeds for ops calls
sweep_start(ops) ==
    [alerts |-> alerts, last_alerts |-> last_alerts, ops |-> ops, raised |-> FALSE]

(***************************************************************************)
(* Bounds and inputs of the detector                                       *)
(***************************************************************************)
\* bursts of rows in login_logs
MaxBursts == 2

\* clock readings of the detector: both sides of the two windows and of
\* the cooldown
DetectorInstants ==
    {0, 1, STUFF_WINDOW + 1, BRUTE_WINDOW + 1, COOLDOWN, COOLDOWN + 1}

\* (usernames, ip, status, fingerprint, n) of the bursts explored: a
\* brute-force run on one account, credential stuffing over four and over
\* three accounts, and as many successful logins as the detector fetches
\* rows
Logins ==
    { << <<"u1">>, "10.0.0.5", "fail_wrong_password", "fp1", BRUTE_THRESHOLD >>,
      << <<"u1", "u2", "u3", "u4">>, "10.0.0.9", "fail_wrong_password", "fp2", 1 >>,
      << <<"u1", "u2", "u3">>, "10.0.0.9", "fail_no_user", "fp2", 1 >>,
      << <<"u4">>, "10.0.0.9", "success", "fp3", FETCH_LIMIT >> }

(***************************************************************************)
(* Actions of the detector                                                 *)
(***************************************************************************)
\* app.login, simulate_engine.simulate_*: a loop of insert_login_log calls
insert_login_log(usernames, ip, status, fingerprint, n) ==
    /\ Len(login_logs) < MaxBursts
    /\ login_logs' = inserted_logs(login_logs, usernames, ip, status, fingerprint,
                                   None, now, n)
    /\ ret' = [op |-> "insert_login_log", ip |-> None]
    /\ UNCHANGED <<now, scorer_vars, alerts, last_alerts, detection_thread, sweeps,
                   detection_engine, threads>>

\* detection.run_detection_once, the store reachable
run_detection_once ==
    /\ \E t1 \in DetectorInstants :
          /\ t1 \in {now, now + 1}
          /\ \E d \in {detection(login_logs, sweep_start(reachable), now, t1)} :
                 /\ alerts' = d.alerts
                 /\ last_alerts' = d.last_alerts
                 /\ ret' = [op |-> "run_detection_once", ip |-> None,
                            t |-> now, alerts_before |-> Len(alerts),
                            last_before |-> last_alerts,
                            raised |-> d.raised,
                            prev |-> IF ret.op = "run_detection_once"
                                     THEN <<ret.t, ret.alerts_before, ret.raised>>
                                     ELSE <<>>]
          /\ now' = t1
    /\ UNCHANGED <<scorer_vars, login_logs, detection_thread, sweeps,
                   detection_engine, threads>>

\* mutation: the exception of a sweep is not caught and ends the thread
loop_after_uncaught(raised) == IF raised THEN "dead" ELSE "running"

\* detection_loop: try: run_detection_once() except Exception: print(...)
loop_after(raised) == "running"

\* what the store does during one sweep of the loop: it is reachable, or
\* it fails at the first, second or third call
StoreOps == {reachable, 0, 1, 2}

\* one iteration of app.detection_loop, ops calls of the store succeeding
detection_loop(ops) ==
    /\ detection_thread = "running"
    /\ \E t1 \in DetectorInstants :
          /\ t1 \in {now, now + 1}
          /\ \E d \in {detection(login_logs, sweep_start(ops), now, t1)} :
                 /\ alerts' = d.alerts
                 /\ last_alerts' = d.last_alerts
                 /\ detection_thread' = loop_after(d.raised)
                 /\ ret' = [op |-> "run_detection_once", ip |-> None,
                            ops |-> ops,
                            t |-> now, alerts_before |-> Len(alerts),
                            last_before |-> last_alerts,
                            raised |-> d.raised,
                            prev |-> IF ret.op = "run_detection_once"
                                     THEN <<ret.t, ret.alerts_before, ret.raised>>
                                     ELSE <<>>]
          /\ now' = t1
    /\ UNCHANGED <<scorer_vars, login_logs, sweeps,
                   detection_engine, threads>>

\* the process ends and app.py is started again: detection is imported anew
restart ==
    /\ last_alerts # [k \in {} |-> 0]
    /\ last_alerts' = [k \in {} |-> 0]
    /\ ret' = [op |-> "restart", ip |-> None]
    /\ UNCHANGED <<now, scorer_vars, login_logs, alerts, detection_thread, sweeps,
                   detection_engine, threads>>

\* time passes: time.sleep(5) of detection_loop, or between two requests
detector_clock ==
    /\ \E t \in DetectorInstants : t > now /\ now' = t
    /\ UNCHANGED <<scorer_vars, detector_vars, ret, threads>>

NextDetector ==
    \/ \E l \in Logins : insert_login_log(l[1], l[2], l[3], l[4], l[5])
    \/ run_detection_once
    \/ restart
    \/ detector_clock

SpecDetector == Init /\ [][NextDetector]_vars

(***************************************************************************)
(* The background loop of app.py over a store that may fail.  The thread   *)
(* sleeps five seconds and sweeps again for as long as it lives, and the   *)
(* store is reachable again at some later sweep: weak fairness of the      *)
(* sweep that finds it reachable.                                          *)
(***************************************************************************)
\* the bursts written while the loop runs
LoopLogins ==
    { << <<"u1">>, "10.0.0.5", "fail_wrong_password", "fp1", BRUTE_THRESHOLD >>,
      << <<"u1", "u2", "u3", "u4">>, "10.0.0.9", "fail_wrong_password", "fp2", 1 >> }

\* bursts of rows written while the loop runs
MaxLoopBursts == 1

NextLoop ==
    \/ \E l \in LoopLogins :
          Len(login_logs) < MaxLoopBursts /\ insert_login_log(l[1], l[2], l[3], l[4], l[5])
    \/ \E ops \in StoreOps : detection_loop(ops)
    \/ detector_clock

SpecLoop == Init /\ [][NextLoop]_vars /\ WF_vars(detection_loop(reachable))

(***************************************************************************)
(* run_detection_once in two steps: the thread of detection_loop enters    *)
(* it, reads the clock and fetches the rows, and later runs the two rules  *)
(* on what it fetched and returns to the loop and its sleep.               *)
(***************************************************************************)
\* detection_loop calls run_detection_once: now = datetime.utcnow();
\* logs = fetch_recent_logs(1000)
run_detection_once_enter(t) ==
    /\ sweeps[t].pc = "sleep"
    /\ sweeps' = [sweeps EXCEPT ![t] = [pc |-> "sweep", now |-> now,
                                        logs |-> login_logs]]
    /\ ret' = [op |-> "run_detection_once_enter", ip |-> None]
    /\ UNCHANGED <<now, scorer_vars, login_logs, alerts, last_alerts,
                   detection_thread, detection_engine, threads>>

\* the rest of run_detection_once and its return
run_detection_once_return(t) ==
    /\ sweeps[t].pc = "sweep"
    /\ \E t1 \in DetectorInstants :
          /\ t1 \in {now, now + 1}
          /\ \E d \in {detection(sweeps[t].logs, sweep_start(reachable),
                                  sweeps[t].now, t1)} :
                 /\ alerts' = d.alerts
                 /\ last_alerts' = d.last_alerts
          /\ now' = t1
    /\ sweeps' = [sweeps EXCEPT ![t] = sleeping]
    /\ ret' = [op |-> "run_detection_once_return", ip |-> None]
    /\ UNCHANGED <<scorer_vars, login_logs, detection_thread,
                   detection_engine, threads>>

NextSweeps ==
    \/ \E l \in LoopLogins :
          Len(login_logs) < MaxLoopBursts /\ insert_login_log(l[1], l[2], l[3], l[4], l[5])
    \/ \E t \in DOMAIN sweeps : run_detection_once_enter(t)
    \/ \E t \in DOMAIN sweeps : run_detection_once_return(t)
    \/ detector_clock

SpecSweeps == Init /\ [][NextSweeps]_vars

(***************************************************************************)
(* detection_engine.py: run_detection_engine_loop, the detector that       *)
(* groups by password fingerprint.  It imports store_alert from database,  *)
(* which defines insert_alert and no store_alert; store_alert is taken to  *)
(* persist the alert as insert_alert does.                                 *)
(***************************************************************************)
BRUTE_FORCE_THRESHOLD == 5
BRUTE_FORCE_WINDOW_SEC == 120
BRUTE_FORCE_COOLDOWN == 300
STUFFING_THRESHOLD == 3
STUFFING_WINDOW_SEC == 120
STUFFING_COOLDOWN == 300

\* fetch_recent_logs(500)
ENGINE_FETCH_LIMIT == 500

\* store_alert(alert_type, details) at time t
store_alert(table, alert_type, details, t) ==
    Append(table, [alert_type |-> alert_type, details |-> details,
                   timestamp |-> isoformat(t)])

\* for username, ip, status, fp, ts in logs: the five columns of a fetched
\* row are username, ip, status, timestamp, user_agent
unpacked(r) ==
    [username |-> r.row.username, ip |-> r.row.ip, status |-> r.row.status,
     fp |-> r.row.timestamp, ts |-> r.row.user_agent, n |-> r.n]

\* datetime.fromisoformat(ts) returns: ts holds the user agent, None or the
\* name of a browser or a bot, and the call raises
user_agent_parses(ts) == FALSE

\* t = datetime.fromisoformat(ts), except Exception: t = now
parsed_or_now(e, t0) == IF user_agent_parses(e.ts) THEN fromisoformat(e.ts) ELSE t0

\* the fetched rows inside a window
windowed(events, t0, window) ==
    SelectSeq(events, LAMBDA e : t0 - parsed_or_now(e, t0) <= window)

\* the keys of a dict filled with setdefault in this order
RECURSIVE distinct(_, _)
distinct(keys, seen) ==
    IF keys = <<>> THEN <<>>
    ELSE IF Head(keys) \in seen THEN distinct(Tail(keys), seen)
         ELSE <<Head(keys)>> \o distinct(Tail(keys), seen \cup {Head(keys)})

\* sum(1 for (t, status) in events if status.startswith("fail"))
fail_count(events, ip) ==
    sum_seq([i \in 1..Len(events) |->
                IF events[i].ip = ip /\ startswith_fail(events[i].status)
                THEN events[i].n ELSE 0])

\* the sum raises: an event of the ip has no status
fail_count_raises(events, ip) ==
    \E i \in 1..Len(events) :
        events[i].ip = ip /\ startswith_raises(events[i].status)

\* fp_map[fp]
fp_users(events, fp) ==
    {events[i].username : i \in {j \in 1..Len(events) : events[j].fp = fp}}

\* not last or (now - last).total_seconds() > COOLDOWN
cooldown_over(last, key, t0, cooldown) ==
    key \notin DOMAIN last \/ t0 - last[key] > cooldown

\* the body of "for ip, events in ip_map.items()"; d is the iteration so
\* far: the alerts table, the two dicts and whether it has raised
bruteforce_body(d, events, ip, t0, t1) ==
    IF d.raised THEN d
    ELSE IF fail_count_raises(events, ip) THEN [d EXCEPT !.raised = TRUE]
    ELSE IF /\ fail_count(events, ip) >= BRUTE_FORCE_THRESHOLD
            /\ cooldown_over(d.last_bruteforce_alert, ip, t0, BRUTE_FORCE_COOLDOWN)
    THEN [d EXCEPT
            !.alerts = store_alert(@, "BRUTE_FORCE",
                        <<"Detected", fail_count(events, ip),
                          "failed attempts from IP", ip>>, t1),
            !.last_bruteforce_alert = started(@, ip, t0)]
    ELSE d

RECURSIVE bruteforce_loop(_, _, _, _, _)
bruteforce_loop(keys, events, d, t0, t1) ==
    IF keys = <<>> THEN d
    ELSE bruteforce_loop(Tail(keys), events,
            bruteforce_body(d, events, Head(keys), t0, t1), t0, t1)

\* the body of "for fp, users in fp_map.items()"
stuffing_body(d, events, fp, t0, t1) ==
    IF d.raised THEN d
    ELSE IF /\ Cardinality(fp_users(events, fp)) >= STUFFING_THRESHOLD
            /\ cooldown_over(d.last_stuffing_alert, fp, t0, STUFFING_COOLDOWN)
    THEN [d EXCEPT
            !.alerts = store_alert(@, "CREDENTIAL_STUFFING",
                        <<"Same password used on accounts:",
                          fp_users(events, fp)>>, t1),
            !.last_stuffing_alert = started(@, fp, t0)]
    ELSE d

RECURSIVE fp_loop(_, _, _, _, _)
fp_loop(keys, events, d, t0, t1) ==
    IF keys = <<>> THEN d
    ELSE fp_loop(Tail(keys), events,
            stuffing_body(d, events, Head(keys), t0, t1), t0, t1)

\* the body of "while True: try:" on the table logs
engine_iteration(logs, d, t0, t1) ==
    LET rows   == fetch_recent_logs(logs, ENGINE_FETCH_LIMIT)
        events == [i \in 1..Len(rows) |-> unpacked(rows[i])]
        ip_map == windowed(events, t0, BRUTE_FORCE_WINDOW_SEC)
        fp_map == windowed(events, t0, STUFFING_WINDOW_SEC)
    IN  fp_loop(distinct([i \in 1..Len(fp_map) |-> fp_map[i].fp], {}), fp_map,
            bruteforce_loop(distinct([i \in 1..Len(ip_map) |-> ip_map[i].ip], {}),
                            ip_map, d, t0, t1),
            t0, t1)

\* (usernames, ip, status, fingerprint, n) of the bursts the engine reads:
\* five failures on one account, and one password tried on two accounts,
\* on a third, and another password on two more
EngineLogins ==
    { << <<"u1">>, "10.0.0.5", "fail_wrong_password", "fp1", BRUTE_FORCE_THRESHOLD >>,
      << <<"u1", "u2">>, "10.0.0.5", "fail_wrong_password", "fp2", 1 >>,
      << <<"u3">>, "10.0.0.5", "fail_wrong_password", "fp2", 1 >>,
      << <<"u3", "u4">>, "10.0.0.9", "success", "fp3", 1 >> }

\* one iteration of run_detection_engine_loop
run_detection_engine_loop ==
    /\ \E t1 \in DetectorInstants :
          /\ t1 \in {now, now + 1}
          /\ \E d \in {engine_iteration(login_logs,
                            [alerts |-> alerts,
                             last_bruteforce_alert |->
                                 detection_engine.last_bruteforce_alert,
                             last_stuffing_alert |->
                                 detection_engine.last_stuffing_alert,
                             raised |-> FALSE], now, t1)} :
                 /\ alerts' = d.alerts
                 /\ detection_engine' =
                        [last_bruteforce_alert |-> d.last_bruteforce_alert,
                         last_stuffing_alert |-> d.last_stuffing_alert]
                 /\ ret' = [op |-> "run_detection_engine_loop", ip |-> None,
                            t |-> now, alerts_before |-> Len(alerts),
                            engine_before |-> detection_engine,
                            raised |-> d.raised]
          /\ now' = t1
    /\ UNCHANGED <<scorer_vars, login_logs, last_alerts, detection_thread, sweeps,
                   threads>>

NextEngine ==
    \/ \E l \in EngineLogins : insert_login_log(l[1], l[2], l[3], l[4], l[5])
    \/ run_detection_engine_loop
    \/ detector_clock

SpecEngine == Init /\ [][NextEngine]_vars

(***************************************************************************)
(* The alerts table shared with other writers                              *)
(*                                                                         *)
(* alerts.timestamp is a TEXT column without a constraint, and             *)
(* run_detection_once provides for a value datetime.fromisoformat rejects  *)
(* (try ... except Exception: pass).  Such a row is written by a program   *)
(* other than insert_alert.                                                *)
(***************************************************************************)
\* rows of alerts whose timestamp does not parse
MaxForeignAlerts == 1

foreign_alert(alert_type, ip) ==
    /\ Cardinality({i \in 1..Len(alerts) : ~fromisoformat_ok(alerts[i].timestamp)})
          < MaxForeignAlerts
    /\ alerts' = Append(alerts, [alert_type |-> alert_type,
                                 details |-> details_of(alert_type, ip),
                                 timestamp |-> unparseable])
    /\ ret' = [op |-> "foreign_alert", ip |-> None]
    /\ UNCHANGED <<now, scorer_vars, login_logs, last_alerts, detection_thread, sweeps,
                   detection_engine, threads>>

\* (usernames, ip, status, whether the timestamp parses, n) of the rows
\* another writer leaves in login_logs, whose columns carry no constraint:
\* failed logins with a timestamp that does not parse, and a row without
\* status
ForeignLogs ==
    { << <<"u1">>, "10.0.0.5", "fail_wrong_password", FALSE, BRUTE_THRESHOLD >>,
      << <<"u1">>, "10.0.0.9", None, TRUE, 1 >> }

foreign_log(usernames, ip, status, parses, n) ==
    /\ Len(login_logs) < MaxBursts
    /\ login_logs' = Append(login_logs,
            [usernames |-> usernames, ip |-> ip, status |-> status,
             fingerprint |-> "fp1",
             timestamp |-> IF parses THEN isoformat(now) ELSE unparseable,
             user_agent |-> None, n |-> n])
    /\ ret' = [op |-> "foreign_log", ip |-> None]
    /\ UNCHANGED <<now, scorer_vars, alerts, last_alerts, detection_thread, sweeps,
                   detection_engine, threads>>

NextSharedStore ==
    \/ NextDetector
    \/ \E l \in ForeignLogs : foreign_log(l[1], l[2], l[3], l[4], l[5])
    \/ \E a \in {"BRUTE_FORCE", "CREDENTIAL_STUFFING"}, ip \in IPs : foreign_alert(a, ip)

SpecSharedStore == Init /\ [][NextSharedStore]_vars

(***************************************************************************)
(* Feature extraction: RiskScorer.extract_features over the live cache and *)
(* feature_engineeringD.extract_features_from_logs over login_logs.  The   *)
(* quotients are kept exact; time_variance, a square root, is kept as the  *)
(* variance it is the root of.                                             *)
(***************************************************************************)
RECURSIVE seq_max(_)
seq_max(ts) ==
    IF Len(ts) = 1 THEN ts[1]
    ELSE IF ts[1] >= seq_max(Tail(ts)) THEN ts[1] ELSE seq_max(Tail(ts))

RECURSIVE seq_min(_)
seq_min(ts) ==
    IF Len(ts) = 1 THEN ts[1]
    ELSE IF ts[1] <= seq_min(Tail(ts)) THEN ts[1] ELSE seq_min(Tail(ts))

\* total_attempts / max(time_span / 60, 0.1), or 0 below two timestamps
attempts_per_minute(data) ==
    IF Len(data.timestamps) >= 2
    THEN LET time_span == seq_max(data.timestamps) - seq_min(data.timestamps)
         IN  IF time_span * 10 <= 60
             THEN fraction(total_attempts(data) * 10, 1)
             ELSE fraction(total_attempts(data) * 60, time_span)
    ELSE fraction(0, 1)

\* max(data['fingerprints'].values()) if data['fingerprints'] else 0
max_fingerprint_reuse(data) ==
    IF DOMAIN data.fingerprints = {} THEN 0
    ELSE LET counts == {data.fingerprints[k] : k \in DOMAIN data.fingerprints}
         IN  CHOOSE c \in counts : \A x \in counts : x <= c

\* max_fingerprint_reuse / unique_users if unique_users > 0 else 0
password_pattern_score(data) ==
    IF Cardinality(data.users) > 0
    THEN fraction(max_fingerprint_reuse(data), Cardinality(data.users))
    ELSE fraction(0, 1)

\* sorted(data['timestamps'])
RECURSIVE sorted(_)
sorted(ts) ==
    IF ts = <<>> THEN <<>>
    ELSE LET i == CHOOSE j \in 1..Len(ts) : \A k \in 1..Len(ts) : ts[j] <= ts[k]
         IN  <<ts[i]>> \o sorted(SubSeq(ts, 1, i - 1) \o SubSeq(ts, i + 1, Len(ts)))

\* the seconds from each of the sorted timestamps to the next
intervals(ts) == [i \in 1..(Len(ts) - 1) |-> sorted(ts)[i + 1] - sorted(ts)[i]]

\* variance = sum((x - mean_interval)**2 for x in intervals) / len(intervals),
\* mean_interval being sum(intervals) / len(intervals): the quotient
\* (n * sum(x**2) - sum(x)**2) / n**2.  time_variance is its square root.
variance(data) ==
    IF Len(data.timestamps) >= 3
    THEN LET xs == intervals(data.timestamps)
             n == Len(xs)
         IN  fraction(n * sum_seq([i \in 1..n |-> xs[i] * xs[i]])
                        - sum_seq(xs) * sum_seq(xs),
                      n * n)
    ELSE fraction(0, 1)

\* mutation: the default vector is never returned
no_attempts_never(data) == FALSE

\* if total_attempts == 0
no_attempts(data) == total_attempts(data) = 0

\* RiskScorer.extract_features: the array, by the name of each position;
\* variance stands where the array has time_variance, its square root
\* (30 in the default vector)
extract_features_value(data) ==
    IF no_attempts(data)
    THEN [failed_attempt_rate |-> fraction(0, 1), unique_users_targeted |-> 1,
          attempts_per_minute |-> fraction(1, 10), variance |-> fraction(900, 1),
          ua_diversity |-> 1,
          password_pattern_score |-> fraction(0, 1),
          success_rate |-> fraction(1, 1), total_attempts |-> 1]
    ELSE [failed_attempt_rate |-> failed_rate(data),
          unique_users_targeted |-> Cardinality(data.users),
          attempts_per_minute |-> attempts_per_minute(data),
          variance |-> variance(data),
          ua_diversity |-> Cardinality(data.user_agents),
          password_pattern_score |-> password_pattern_score(data),
          success_rate |-> success_rate(data),
          total_attempts |-> total_attempts(data)]

\* RiskScorer.extract_features(ip)
extract_features(ip) ==
    /\ ip_cache' = extract_features_cache(ip_cache, ip)
    /\ ret' = [op |-> "extract_features", ip |-> ip,
               value |-> extract_features_value(getitem(ip_cache, ip)),
               previous |-> IF ret.op = "extract_features" /\ ret.ip = ip
                            THEN {ret.value} ELSE {},
               cache_before |-> ip_cache]
    /\ UNCHANGED <<now, model_vars, detector_vars, threads, scorers>>

NextExtract ==
    \/ \E ip \in IPs, a \in Attempts : update_cache(ip, a[1], a[2], a[3], a[4])
    \/ \E ip \in IPs : extract_features(ip)
    \/ scorer_clock

SpecExtract == Init /\ [][NextExtract]_vars

\* extract_features_from_logs: ip_data[ip] after one more row of logs
ip_data_row(data, row) ==
    [attempts    |-> Append(data.attempts,
                        <<row.username, row.status, row.timestamp, row.fingerprint>>),
     users       |-> data.users \cup {row.username},
     fingerprints |-> incr(data.fingerprints, row.fingerprint),
     user_agents |-> IF row.user_agent # None
                     THEN data.user_agents \cup {row.user_agent}
                     ELSE data.user_agents,
     timestamps  |-> IF fromisoformat_ok(row.timestamp)
                     THEN Append(data.timestamps, fromisoformat(row.timestamp))
                     ELSE data.timestamps,
     failures    |-> IF startswith_fail(row.status)
                     THEN data.failures + 1 ELSE data.failures,
     successes   |-> IF startswith_fail(row.status)
                     THEN data.successes ELSE data.successes + 1]

\* extract_features_from_logs: ip_data[ip] after the rows of one ip
RECURSIVE ip_data(_)
ip_data(rows) ==
    IF rows = <<>> THEN new_entry
    ELSE ip_data_row(ip_data(SubSeq(rows, 1, Len(rows) - 1)), rows[Len(rows)])

\* extract_features_from_logs: feature_dict of one ip, in the order
\* features_to_array reads it
feature_dict(data) ==
    [failed_attempt_rate |-> rounded(failed_rate(data), 1000),
     unique_users_targeted |-> Cardinality(data.users),
     attempts_per_minute |-> rounded(attempts_per_minute(data), 100),
     ua_diversity |-> Cardinality(data.user_agents),
     password_pattern_score |-> rounded(password_pattern_score(data), 1000),
     success_rate |-> rounded(success_rate(data), 1000),
     total_attempts |-> total_attempts(data)]

\* the row of login_logs that records an attempt of the cache: the
\* user agent is the one the attempt was made with
logged_row(attempt) ==
    [username |-> attempt[1], status |-> attempt[2],
     timestamp |-> isoformat(attempt[3]), fingerprint |-> attempt[4],
     user_agent |-> (CHOOSE a \in Attempts :
                        a[1] = attempt[1] /\ a[2] = attempt[2] /\ a[3] = attempt[4])[4]]

\* the rows of login_logs for the attempts of a window
logged_rows(attempts) == [i \in 1..Len(attempts) |-> logged_row(attempts[i])]

(***************************************************************************)
(* C1: immediately after update_cache(ip, ...) returns at time now, every  *)
(* tuple retained in ip's attempts list and every entry of ip's timestamps *)
(* list is no older than now - 1 hour.                                     *)
(***************************************************************************)
C1_RetainedWithinHorizon ==
    ret.op = "update_cache" =>
        LET data == ip_cache[ret.ip]
        IN  /\ \A i \in 1..Len(data.attempts) : data.attempts[i][3] >= now - HORIZON
            /\ \A i \in 1..Len(data.timestamps) : data.timestamps[i] >= now - HORIZON

\* an update that evicted an old tuple and kept one that is 3599 s old
C1_Witness ==
    /\ ret.op = "update_cache"
    /\ LET data == ip_cache[ret.ip]
       IN  /\ data.failures + data.successes > Len(data.attempts)
           /\ \E i \in 1..Len(data.attempts) : data.attempts[i][3] = now - HORIZON + 1

(***************************************************************************)
(* C2: after any sequence of update_cache calls the aggregates that        *)
(* extract_features reads for an IP are those of the retained tuples:      *)
(* failures + successes is the number of retained attempts, users is the   *)
(* set of their usernames, and each fingerprint count is the number of     *)
(* retained attempts with that fingerprint.                                *)
(***************************************************************************)
C2_AggregatesOfRetained ==
    \A ip \in DOMAIN ip_cache :
        LET data == ip_cache[ip]
            idx  == 1..Len(data.attempts)
        IN  /\ data.failures + data.successes = Len(data.attempts)
            /\ data.users = {data.attempts[i][1] : i \in idx}
            /\ \A fp \in DOMAIN data.fingerprints :
                    data.fingerprints[fp] =
                        Cardinality({i \in idx : data.attempts[i][4] = fp})

(***************************************************************************)
(* What a sweep found and did, read off the state it leaves                *)
(***************************************************************************)
AlertTypes == {"BRUTE_FORCE", "CREDENTIAL_STUFFING"}

swept == ret.op = "run_detection_once"

\* the alerts of (alert_type, ip) among rows from+1 .. to of the table
alerts_of(alert_type, ip, from, to) ==
    {i \in (from + 1)..to :
        /\ alerts[i].alert_type = alert_type
        /\ alerts[i].details = details_of(alert_type, ip)}

\* the alerts the last sweep inserted for (alert_type, ip)
inserted(alert_type, ip) == alerts_of(alert_type, ip, ret.alerts_before, Len(alerts))

\* a cooldown was running for (alert_type, ip) when the last sweep began:
\* an in-process entry or a persisted alert no more than COOLDOWN old
cooldown_active(alert_type, ip) ==
    \/ /\ <<alert_type, ip>> \in DOMAIN ret.last_before
       /\ ret.t - ret.last_before[<<alert_type, ip>>] <= COOLDOWN
    \/ \E i \in alerts_of(alert_type, ip, 0, ret.alerts_before) :
          /\ fromisoformat_ok(alerts[i].timestamp)
          /\ ret.t - fromisoformat(alerts[i].timestamp) <= COOLDOWN

\* the stored failed events of ip aged at most BRUTE_WINDOW at the sweep
stored_failures(ip) == sum_counted(rows_desc(login_logs), ip, ret.t)

\* the usernames of the stored failed events of ip aged at most STUFF_WINDOW
stored_failed_users(ip) == ip_users(rows_desc(login_logs), ip, ret.t)

(***************************************************************************)
(* C3: with no cooldown active for the IP, run_detection_once persists     *)
(* exactly one BRUTE_FORCE alert for each IP with at least BRUTE_THRESHOLD *)
(* stored failed events aged at most BRUTE_WINDOW, and none for an IP with *)
(* fewer, whatever else is stored.                                         *)
(***************************************************************************)
C3_BruteForceRule ==
    swept =>
        \A ip \in IPs :
            ~cooldown_active("BRUTE_FORCE", ip) =>
                Cardinality(inserted("BRUTE_FORCE", ip)) =
                    IF stored_failures(ip) >= BRUTE_THRESHOLD THEN 1 ELSE 0

(***************************************************************************)
(* C4: with no cooldown active for the IP, run_detection_once persists a   *)
(* CREDENTIAL_STUFFING alert for an IP if and only if its stored failed    *)
(* events aged at most STUFF_WINDOW name at least STUFF_THRESHOLD distinct *)
(* usernames.                                                              *)
(***************************************************************************)
C4_CredentialStuffingRule ==
    swept =>
        \A ip \in IPs :
            ~cooldown_active("CREDENTIAL_STUFFING", ip) =>
                (inserted("CREDENTIAL_STUFFING", ip) # {}
                    <=> Cardinality(stored_failed_users(ip)) >= STUFF_THRESHOLD)

(***************************************************************************)
(* C5: two sweeps one after the other, less than COOLDOWN apart and with   *)
(* no login event in between.                                              *)
(***************************************************************************)
swept_twice ==
    /\ swept
    /\ ret.prev # <<>>
    /\ ret.t - ret.prev[1] < COOLDOWN

\* C5 as claimed: over the two sweeps at most one alert is persisted per
\* (alert_type, ip), and the second sweep inserts no alert
C5_SecondSweepInsertsNothing ==
    swept_twice =>
        /\ \A a \in AlertTypes, ip \in IPs :
              Cardinality(alerts_of(a, ip, ret.prev[2], Len(alerts))) <= 1
        /\ Len(alerts) = ret.alerts_before

\* C5 as amended: over the two sweeps at most one alert is persisted per
\* (alert_type, ip), and the second sweep inserts no alert for a pair the
\* first sweep inserted one for
C5_AtMostOneAlertPerPair ==
    swept_twice =>
        \A a \in AlertTypes, ip \in IPs :
            /\ Cardinality(alerts_of(a, ip, ret.prev[2], Len(alerts))) <= 1
            /\ alerts_of(a, ip, ret.prev[2], ret.alerts_before) # {}
                    => inserted(a, ip) = {}

\* the first sweep alerted, and the second found the same candidate
C5_Witness ==
    /\ swept_twice
    /\ \E ip \in IPs :
          /\ alerts_of("BRUTE_FORCE", ip, ret.prev[2], ret.alerts_before) # {}
          /\ stored_failures(ip) >= BRUTE_THRESHOLD
          /\ inserted("BRUTE_FORCE", ip) = {}

(***************************************************************************)
(* C6: run_detection_once inserts an alert for (alert_type, ip) only if    *)
(* (a) the in-process entry for the pair is absent or more than COOLDOWN   *)
(* old and (b) the most recent persisted alert with the same alert_type    *)
(* and details is absent or older than COOLDOWN; a persisted alert whose   *)
(* timestamp cannot be shown to be older than COOLDOWN blocks the          *)
(* emission.                                                               *)
(***************************************************************************)
C6_EmissionNeedsBothCooldowns ==
    swept =>
        \A a \in AlertTypes, ip \in IPs :
            inserted(a, ip) # {} =>
                /\ \/ <<a, ip>> \notin DOMAIN ret.last_before
                   \/ ret.t - ret.last_before[<<a, ip>>] > COOLDOWN
                /\ LET prior == alerts_of(a, ip, 0, ret.alerts_before)
                   IN  \/ prior = {}
                       \/ LET last == CHOOSE i \in prior : \A j \in prior : j <= i
                          IN  /\ fromisoformat_ok(alerts[last].timestamp)
                              /\ ret.t - fromisoformat(alerts[last].timestamp)
                                     > COOLDOWN

(***************************************************************************)
(* C7: any two persisted alerts with the same alert_type and the same IP   *)
(* have timestamps more than COOLDOWN apart, across restarts of the        *)
(* detector process.                                                       *)
(***************************************************************************)
C7_CooldownBetweenAlerts ==
    \A i, j \in 1..Len(alerts) :
        (/\ i < j
         /\ alerts[i].alert_type = alerts[j].alert_type
         /\ alerts[i].details = alerts[j].details)
        => fromisoformat(alerts[j].timestamp) - fromisoformat(alerts[i].timestamp)
               > COOLDOWN

\* a second alert for the same pair, persisted by a process that started
\* after the first
C7_Witness ==
    /\ swept
    /\ \E a \in AlertTypes, ip \in IPs :
          /\ inserted(a, ip) # {}
          /\ alerts_of(a, ip, 0, ret.alerts_before) # {}
          /\ <<a, ip>> \notin DOMAIN ret.last_before

(***************************************************************************)
(* Claims about the scorer's results                                       *)
(***************************************************************************)
\* the last call was score_ip and the classifier gave a prediction
scored ==
    /\ ret.op = "score_ip"
    /\ risk_scorer.model # 0
    /\ risk_scorer.metadata # 0
    /\ ~ret.pred.raises

\* C8: with a model loaded, score_ip returns
\* risk_score = round(base weight * max class probability), an integer
\* in 0..100, for every predicted class and every probability
C8_RiskScoreIsRounded ==
    scored =>
        /\ ret.value.risk_score
             = round_div(risk_map(ret.pred.prediction) * ret.pred.max_prob, 100)
        /\ ret.value.risk_score \in 0..100

\* C9: when no model is loaded, the model file missing or the load failed,
\* score_login_attempt raises nothing and returns risk_score 0 with
\* classification 'unknown', for every event
C9_NoModelScoresZero ==
    (ret.op = "score_login_attempt" /\ ~risk_scorer.loaded) =>
        /\ ~ret.raised
        /\ ret.value.risk_score = 0
        /\ ret.value.classification = "unknown"

\* C10: whenever no model is loaded or the prediction raises inside
\* score_ip, should_block returns False for every threshold
C10_NoBlockOnError ==
    (ret.op = "should_block" /\ (risk_scorer.model = 0 \/ ret.pred.raises)) =>
        ret.value = FALSE

\* C11: the scorer holds no model, or a model together with the metadata
\* the same training run wrote; never a model with absent or different-run
\* metadata
C11_ModelWithItsMetadata ==
    risk_scorer.model # 0 => risk_scorer.metadata = risk_scorer.model

\* C12: a training run on fewer than 50 samples returns False to its
\* caller after printing the insufficient-data message and leaves both
\* files as they were; a run that writes the model file had 50 or more
C12_InsufficientDataWritesNothing ==
    /\ (ret.op = "train_risk_model" /\ ret.samples < MIN_SAMPLES) =>
            /\ ret.value = FALSE
            /\ ret.printed = "[!] Not enough training data!"
            /\ <<model_file, metadata_file>> = ret.files_before
    /\ ret.op = "dump_model" => ret.samples >= MIN_SAMPLES

\* a run on 49 samples has returned while an earlier run's model is stored
C12_Witness ==
    /\ ret.op = "train_risk_model"
    /\ ret.samples = MIN_SAMPLES - 1
    /\ model_file # 0

\* C14: an IP has an entry in ip_cache exactly when its window is not
\* empty: every entry holds at least one attempt and only attempts younger
\* than the horizon, so an IP whose observations have all aged out is
\* again a missing key
C14_UnseenOrTracked ==
    \A ip \in DOMAIN ip_cache :
        LET data == ip_cache[ip]
        IN  /\ data.attempts # <<>>
            /\ \A i \in 1..Len(data.attempts) :
                    data.attempts[i][3] > now - HORIZON

\* C15: in every window update_cache leaves, the failed-attempt rate and
\* the success rate lie in [0,1]: neither counter exceeds the number of
\* retained attempts they are divided by
C15_RatesWithinUnit ==
    \A ip \in DOMAIN ip_cache :
        LET data == ip_cache[ip]
        IN  total_attempts(data) > 0 =>
                /\ 0 <= failed_rate(data).num
                /\ failed_rate(data).num <= failed_rate(data).den
                /\ 0 <= success_rate(data).num
                /\ success_rate(data).num <= success_rate(data).den

\* C18: with a model loaded, score_login_attempt returns a result and never
\* raises to its caller, for any event, an event with status None included
C18_ScorerErrorsContained ==
    (ret.op = "score_login_attempt" /\ risk_scorer.model # 0) => ~ret.raised

\* the window of ip holds the event the last score_login_attempt was given
event_recorded ==
    /\ ret.ip \in DOMAIN ip_cache
    /\ \E i \in 1..Len(ip_cache[ret.ip].attempts) :
            ip_cache[ret.ip].attempts[i] = ret.event

fetched == fetch_recent_logs(login_logs, FETCH_LIMIT)

malformed(r) == ~fromisoformat_ok(r.row.timestamp) \/ r.row.status = None

C16_MalformedRowsSkipped ==
    (swept /\ \E i \in 1..Len(fetched) : malformed(fetched[i])) =>
        \A ip \in IPs :
            /\ ~cooldown_active("BRUTE_FORCE", ip) =>
                  (inserted("BRUTE_FORCE", ip) # {}
                      <=> ip_counts(fetched, ip, ret.t) >= BRUTE_THRESHOLD)
            /\ ~cooldown_active("CREDENTIAL_STUFFING", ip) =>
                  (inserted("CREDENTIAL_STUFFING", ip) # {}
                      <=> Cardinality(ip_users(fetched, ip, ret.t)) >= STUFF_THRESHOLD)

(***************************************************************************)
(* C17: after a sweep of the loop that raised, the thread is still running *)
(* and a later iteration completes a sweep, which alerts for every ip      *)
(* whose alert condition holds then and is under no cooldown.              *)
(***************************************************************************)
sweep_failed == swept /\ ret.raised

sweep_completed ==
    /\ swept
    /\ ~ret.raised
    /\ detection_thread = "running"
    /\ \A ip \in IPs :
          /\ (~cooldown_active("BRUTE_FORCE", ip)
                /\ ip_counts(fetched, ip, ret.t) >= BRUTE_THRESHOLD)
                => inserted("BRUTE_FORCE", ip) # {}
          /\ (~cooldown_active("CREDENTIAL_STUFFING", ip)
                /\ Cardinality(ip_users(fetched, ip, ret.t)) >= STUFF_THRESHOLD)
                => inserted("CREDENTIAL_STUFFING", ip) # {}

C17_LoopSurvivesSweepFailure == sweep_failed ~> sweep_completed

\* the sweep after a failed one has alerted
C17_Witness ==
    /\ swept
    /\ ~ret.raised
    /\ ret.prev # <<>>
    /\ ret.prev[3]
    /\ \E ip \in IPs : inserted("BRUTE_FORCE", ip) # {}

(***************************************************************************)
(* C20: for the same events of one ip, none of them evicted, the features  *)
(* extract_features_from_logs produces equal, field by field, those        *)
(* RiskScorer.extract_features produces after the events went through      *)
(* update_cache.                                                           *)
(***************************************************************************)
same_value(x, y) == x.num * y.den = y.num * x.den

C20_OfflineEqualsOnline ==
    \A ip \in DOMAIN ip_cache :
        LET data    == ip_cache[ip]
            online  == extract_features_value(data)
            offline == feature_dict(ip_data(logged_rows(data.attempts)))
        IN  (total_attempts(data) > 0
                /\ total_attempts(data) = data.failures + data.successes) =>
                /\ same_value(offline.failed_attempt_rate, online.failed_attempt_rate)
                /\ offline.unique_users_targeted = online.unique_users_targeted
                /\ same_value(offline.attempts_per_minute, online.attempts_per_minute)
                /\ offline.ua_diversity = online.ua_diversity
                /\ same_value(offline.password_pattern_score,
                              online.password_pattern_score)
                /\ same_value(offline.success_rate, online.success_rate)
                /\ offline.total_attempts = online.total_attempts

(***************************************************************************)
(* C13: once every one of the N threads that called update_cache for the   *)
(* same ip at the same time has returned, the entry of the ip holds N      *)
(* attempts and N timestamps and failures + successes = N.                 *)
(***************************************************************************)
all_returned == \A t \in Threads : threads[t].pc = "returned"

C13_NoUpdateLost ==
    all_returned =>
        /\ ConcurrentIP \in DOMAIN ip_cache
        /\ LET data == ip_cache[ConcurrentIP]
               N == Cardinality(Threads)
           IN  /\ Len(data.attempts) = N
               /\ Len(data.timestamps) = N
               /\ data.failures + data.successes = N

(***************************************************************************)
(* C21: extract_features(ip) called again with no update_cache in between  *)
(* returns the vector it returned before, and the vector of a window is    *)
(* the vector of the window populated with the same attempts in the        *)
(* opposite order.                                                         *)
(***************************************************************************)
reversed(s) == [i \in 1..Len(s) |-> s[Len(s) + 1 - i]]

\* the entry update_cache builds from attempts, taken in their order, the
\* cutoff being that of instant t2
RECURSIVE populated(_, _)
populated(attempts, t2) ==
    IF attempts = <<>> THEN new_entry
    ELSE LET a == attempts[Len(attempts)]
         IN  updated_entry(populated(SubSeq(attempts, 1, Len(attempts) - 1), t2),
                           a[1], a[2], a[4], logged_row(a).user_agent, a[3], t2)

\* nothing of the window has been evicted and nothing of it has aged out
window_whole(data) ==
    /\ total_attempts(data) = data.failures + data.successes
    /\ \A i \in 1..Len(data.attempts) : data.attempts[i][3] > now - HORIZON

C21_ExtractionDeterministic ==
    /\ ret.op = "extract_features" =>
            \A previous \in ret.previous : previous = ret.value
    /\ \A ip \in DOMAIN ip_cache :
            LET data == ip_cache[ip]
            IN  window_whole(data) =>
                    /\ populated(data.attempts, now) = data
                    /\ extract_features_value(populated(reversed(data.attempts), now))
                            = extract_features_value(data)

C21_Witness ==
    /\ ret.op = "extract_features"
    /\ ret.previous # {}
    /\ LET data == ip_cache[ret.ip]
       IN  /\ window_whole(data)
           /\ Cardinality(data.users) = 2
           /\ Cardinality(DOMAIN data.fingerprints) = 2
           /\ data.attempts # reversed(data.attempts)
           /\ data.timestamps # reversed(data.timestamps)

\* C25: extract_features leaves ip_cache as it found it, the keys and the
\* entry of every key, also for an IP no update_cache was ever called for
C25_ReadsLeaveCacheUnchanged ==
    ret.op = "extract_features" => ip_cache = ret.cache_before

\* C26: for every window that holds an attempt, the user-agent diversity
\* and the number of users targeted are at least 1, in the vector of the
\* scorer and in the features extracted from the logged rows
C26_DiversityAtLeastOne ==
    \A ip \in DOMAIN ip_cache :
        LET data    == ip_cache[ip]
            online  == extract_features_value(data)
            offline == feature_dict(ip_data(logged_rows(data.attempts)))
        IN  total_attempts(data) > 0 =>
                /\ online.ua_diversity >= 1
                /\ online.unique_users_targeted >= 1
                /\ offline.ua_diversity >= 1
                /\ offline.unique_users_targeted >= 1

\* C27: every quotient in the vector extract_features returns has a
\* divisor other than zero, for an IP never seen and for every window
\* update_cache and earlier reads have left
C27_NoDivisionByZero ==
    ret.op = "extract_features" =>
        /\ ret.value.failed_attempt_rate.den > 0
        /\ ret.value.attempts_per_minute.den > 0
        /\ ret.value.variance.den > 0
        /\ ret.value.password_pattern_score.den > 0
        /\ ret.value.success_rate.den > 0

C27_Witness ==
    /\ ret.op = "extract_features"
    /\ ret.value.total_attempts >= 3
    /\ ret.value.variance.num > 0
    /\ \E ip \in DOMAIN ip_cache : ip_cache[ip].attempts = <<>>

(***************************************************************************)
(* C28: the cooldown of a pair (alert type, ip) is started only by an      *)
(* alert insert_alert has stored: every key of _last_alerts has an alert   *)
(* of its type and ip in the table, and the keys a sweep has set or reset  *)
(* are those of the alerts it has stored itself, so a sweep whose          *)
(* insert_alert fails leaves the pair as it was.                           *)
(***************************************************************************)
persisted(key, from) ==
    \E i \in from..Len(alerts) :
        /\ alerts[i].alert_type = key[1]
        /\ alerts[i].details = details_of(key[1], key[2])

C28_CooldownStartedByEmission ==
    /\ \A key \in DOMAIN last_alerts : persisted(key, 1)
    /\ ret.op = "run_detection_once" =>
            \A key \in DOMAIN last_alerts :
                (key \notin DOMAIN ret.last_before
                    \/ ret.last_before[key] # last_alerts[key])
                => persisted(key, ret.alerts_before + 1)

\* a sweep found an ip over the threshold and no cooldown, and insert_alert
\* failed
C28_Witness ==
    /\ ret.op = "run_detection_once"
    /\ ret.raised
    /\ ret.ops = 2
    /\ login_logs # <<>>
    /\ last_alerts = ret.last_before

(***************************************************************************)
(* C24: at most one invocation of run_detection_once is in progress at any *)
(* time; no two of them read and write _last_alerts in turns.              *)
(***************************************************************************)
in_progress == {t \in DOMAIN sweeps : sweeps[t].pc = "sweep"}

C24_SingleSweep == Cardinality(in_progress) <= 1

\* a sweep is in progress after an earlier one has stored an alert and
\* started its cooldown
C24_Witness ==
    /\ in_progress # {}
    /\ alerts # <<>>
    /\ DOMAIN last_alerts # {}

(***************************************************************************)
(* C22: two persisted alerts of the same alert type for the same ip carry  *)
(* the same details, whatever was counted in the sweeps that stored them.  *)
(***************************************************************************)
\* the details name the ip the alert is about, as their last part
names_ip(alert) == alert.details[1] # "Same password used on accounts:"
alert_ip(alert) == alert.details[Len(alert.details)]

C22_DetailsFunctionOfKey ==
    \A i, j \in 1..Len(alerts) :
        (/\ alerts[i].alert_type = alerts[j].alert_type
         /\ names_ip(alerts[i]) /\ names_ip(alerts[j])
         /\ alert_ip(alerts[i]) = alert_ip(alerts[j]))
        => alerts[i].details = alerts[j].details

(***************************************************************************)
(* C23: an iteration of run_detection_engine_loop stores a                 *)
(* CREDENTIAL_STUFFING alert when at least STUFFING_THRESHOLD usernames    *)
(* submitted the same fingerprint within STUFFING_WINDOW_SEC and no        *)
(* cooldown is active, and stores none when every fingerprint of the       *)
(* window was submitted by fewer usernames.                                *)
(***************************************************************************)
\* the usernames that submitted fingerprint within the window before t
submitters(fingerprint, t) ==
    UNION {{login_logs[i].usernames[k] : k \in 1..Len(login_logs[i].usernames)} :
            i \in {j \in 1..Len(login_logs) :
                    /\ login_logs[j].fingerprint = fingerprint
                    /\ t - fromisoformat(login_logs[j].timestamp)
                            <= STUFFING_WINDOW_SEC}}

Fingerprints == {login_logs[i].fingerprint : i \in 1..Len(login_logs)}

stuffing_stored ==
    \E i \in (ret.alerts_before + 1)..Len(alerts) :
        alerts[i].alert_type = "CREDENTIAL_STUFFING"

C23_FingerprintGroupedStuffing ==
    ret.op = "run_detection_engine_loop" =>
        /\ (/\ DOMAIN ret.engine_before.last_stuffing_alert = {}
            /\ \E fp \in Fingerprints :
                    Cardinality(submitters(fp, ret.t)) >= STUFFING_THRESHOLD)
           => stuffing_stored
        /\ (\A fp \in Fingerprints :
                    Cardinality(submitters(fp, ret.t)) < STUFFING_THRESHOLD)
           => ~stuffing_stored

(***************************************************************************)
(* C29: with a model loaded the risk score never exceeds 95, and at the    *)
(* default threshold should_block returns True only for a source the       *)
(* classifier called brute_force or credential_stuffing.                   *)
(***************************************************************************)
C29_BlockOnlyAttackClasses ==
    /\ (ret.op = "score_ip" /\ risk_scorer.model # 0) => ret.value.risk_score <= 95
    /\ (ret.op = "should_block" /\ risk_scorer.model # 0) =>
            /\ ret.score.risk_score <= 95
            /\ (ret.threshold = DEFAULT_THRESHOLD /\ ret.value) =>
                    ret.score.classification \in {"brute_force", "credential_stuffing"}

\* a source called credential_stuffing with probability 0.95 is blocked
C29_Witness ==
    /\ ret.op = "should_block"
    /\ risk_scorer.model # 0
    /\ ret.threshold = DEFAULT_THRESHOLD
    /\ ret.value
    /\ ret.score.classification = "credential_stuffing"
    /\ ret.score.risk_score = DEFAULT_THRESHOLD

(***************************************************************************)
(* C30: get_risk_scorer yields a single shared scorer: whatever the        *)
(* interleaving of concurrent first calls of score_login_attempt, one      *)
(* RiskScorer instance is created, and no event is recorded in an instance *)
(* that _risk_scorer is not bound to.                                      *)
(***************************************************************************)
\* instance o holds an event and is not the one _risk_scorer is bound to
discarded(o) ==
    /\ scorers._risk_scorer # 0
    /\ scorers._risk_scorer # o
    /\ recorded(scorers.objects[o].ip_cache, DOMAIN scorers.objects[o].ip_cache) > 0

C30_SingleSharedScorer ==
    /\ Len(scorers.objects) <= 1
    /\ \A o \in 1..Len(scorers.objects) : ~discarded(o)

============================================================================
